---- MODULE Spec2Model ----
(***************************************************************************)
(* A model of the statistical testing and allocation code of               *)
(* creative-optimizer: ABTest (src/utils/ab_testing.py) and                *)
(* EarlySignalsAnalyzer (src/utils/early_signals.py).                      *)
(*                                                                         *)
(* Numbers.  The Python code computes in binary floating point; the model  *)
(* computes in exact rationals <<n, d>> (d > 0, lowest terms) and rounds   *)
(* where the code rounds.  Every comparison the code makes between a       *)
(* quotient of two counts and a decimal literal is decided the same way by *)
(* both, because a correctly rounded quotient that equals the literal      *)
(* exactly is the literal's own double.  The two transcendental functions  *)
(* of the code, math.sqrt and stats.norm.cdf, are computed in fixed point  *)
(* (ISqrt) and from a table of the normal tail (NormTail).                 *)
(***************************************************************************)
EXTENDS Integers, Sequences, FiniteSets, TLC

VARIABLES
    db,          \* the Creative table: id -> row (self.db)
    user_id,     \* the ABTest instance's user (self.user_id)
    THRESHOLDS,  \* EarlySignalsAnalyzer.THRESHOLDS (class attribute)
    rng,         \* the state of the module-level generator of `random`
    call,        \* the call in progress: [op, args]; op = "none" when idle
    result,      \* the value the call returned (a dict, as a record)
    frame        \* the call's local variables at its return statement

vars == <<db, user_id, THRESHOLDS, rng, call, result, frame>>

----------------------------------------------------------------------------
(* Exact rational arithmetic                                               *)

Abs(x) == IF x < 0 THEN -x ELSE x

Sign(x) == IF x > 0 THEN 1 ELSE IF x < 0 THEN -1 ELSE 0

RECURSIVE GCD(_, _)
GCD(a, b) == IF b = 0 THEN a ELSE GCD(b, a % b)

\* n/d in lowest terms with a positive denominator (d # 0)
Rat(n, d) ==
    LET g == GCD(Abs(n), Abs(d))
        s == IF d < 0 THEN -1 ELSE 1
    IN  <<s * (Abs(n) \div g) * Sign(n), Abs(d) \div g>>

RatMul(a, b) ==
    LET g1 == GCD(Abs(a[1]), b[2])
        g2 == GCD(Abs(b[1]), a[2])
    IN  Rat((a[1] \div g1) * (b[1] \div g2), (a[2] \div g2) * (b[2] \div g1))

RatAdd(a, b) ==
    LET g == GCD(a[2], b[2])
    IN  Rat(a[1] * (b[2] \div g) + b[1] * (a[2] \div g), (a[2] \div g) * b[2])

RatNeg(a) == <<-a[1], a[2]>>

RatSub(a, b) == RatAdd(a, RatNeg(b))

\* 1/a for a # 0
RatInv(a) == IF a[1] < 0 THEN <<-a[2], -a[1]>> ELSE <<a[2], a[1]>>

RatDiv(a, b) == RatMul(a, RatInv(b))

RatLt(a, b) == a[1] * b[2] < b[1] * a[2]

RatLe(a, b) == a[1] * b[2] <= b[1] * a[2]

One == <<1, 1>>

Zero == <<0, 1>>

\* a product of integers
RECURSIVE Product(_)
Product(seq) == IF seq = <<>> THEN 1 ELSE Head(seq) * Product(Tail(seq))

\* n and the factors dens[i..] with their common divisors removed
RECURSIVE CancelOne(_, _, _)
CancelOne(n, dens, i) ==
    IF i > Len(dens) THEN <<n, dens>>
    ELSE LET g == GCD(n, dens[i])
         IN  CancelOne(n \div g, [dens EXCEPT ![i] = @ \div g], i + 1)

RECURSIVE CancelAll(_, _, _)
CancelAll(nums, dens, i) ==
    IF i > Len(nums) THEN <<nums, dens>>
    ELSE LET c == CancelOne(nums[i], dens, 1)
         IN  CancelAll([nums EXCEPT ![i] = c[1]], c[2], i + 1)

\* (the product of nums) / (the product of dens) in lowest terms, cancelling
\* before multiplying (nums >= 0, dens > 0)
Frac(nums, dens) ==
    LET c == CancelAll(nums, dens, 1)
    IN  IF \E i \in 1..Len(nums) : nums[i] = 0 THEN Zero
        ELSE <<Product(c[1]), Product(c[2])>>


\* floor(n/d * 10^k) and the remainder, by long division (n >= 0, d > 0)
RECURSIVE LongDiv(_, _, _)
LongDiv(n, d, k) ==
    IF k = 0 THEN <<n \div d, n % d>>
    ELSE LET p == LongDiv(n, d, k - 1)
         IN  <<p[1] * 10 + (p[2] * 10) \div d, (p[2] * 10) % d>>

\* Python's round(x, k) as an integer count of 10^-k: nearest, ties to even
Round(a, k) ==
    LET p == LongDiv(Abs(a[1]), a[2], k)
        q == p[1]
        up == \/ 2 * p[2] > a[2]
              \/ 2 * p[2] = a[2] /\ q % 2 = 1
    IN  Sign(a[1]) * (IF up THEN q + 1 ELSE q)

\* floor(sqrt(x)) by bisection on lo..hi (lo*lo <= x < (hi+1)*(hi+1))
RECURSIVE Bisect(_, _, _)
Bisect(x, lo, hi) ==
    IF lo >= hi THEN lo
    ELSE LET mid == (lo + hi + 1) \div 2
         IN  IF mid * mid <= x THEN Bisect(x, mid, hi) ELSE Bisect(x, lo, mid - 1)

\* math.sqrt on fixed point: the integer nearest to sqrt(x)
ISqrt(x) ==
    LET r == Bisect(x, 0, 46340)
    IN  IF x - r * r > r THEN r + 1 ELSE r

----------------------------------------------------------------------------
(* scipy.stats.norm                                                        *)

\* The two-tailed normal tail 2*(1 - cdf(z)), in millionths, tabulated:
\* <<b, p>> reads "z*z*10^6 < b gives a tail of at least p".  The rows are the
\* grid z = 0.1, 0.2, .. 5.0 and the quantiles of 0.10, 0.05, 0.04996, 0.01
\* and 0.001, so that the comparisons with 0.05 are decided as the code
\* decides them.
NormTail ==
  << <<10000, 920344>>, <<40000, 841481>>, <<90000, 764177>>, <<160000, 689157>>,
     <<250000, 617075>>, <<360000, 548506>>, <<490000, 483927>>, <<640000, 423711>>,
     <<810000, 368120>>, <<1000000, 317311>>, <<1210000, 271332>>, <<1440000, 230139>>,
     <<1690000, 193601>>, <<1960000, 161513>>, <<2250000, 133614>>, <<2560000, 109599>>,
     <<2705544, 100000>>, <<2890000, 89131>>, <<3240000, 71861>>, <<3610000, 57433>>,
     <<3841459, 50000>>, <<3842801, 49960>>, <<4000000, 45500>>, <<4410000, 35729>>,
     <<4840000, 27807>>, <<5290000, 21448>>, <<5760000, 16395>>, <<6250000, 12419>>,
     <<6634897, 10000>>, <<6760000, 9322>>, <<7290000, 6934>>, <<7840000, 5110>>,
     <<8410000, 3732>>, <<9000000, 2700>>, <<9610000, 1935>>, <<10240000, 1374>>,
     <<10827567, 1000>>, <<10890000, 967>>, <<11560000, 674>>, <<12250000, 465>>,
     <<12960000, 318>>, <<13690000, 216>>, <<14440000, 145>>, <<15210000, 96>>,
     <<16000000, 63>>, <<16810000, 41>>, <<17640000, 27>>, <<18490000, 17>>,
     <<19360000, 11>>, <<20250000, 7>>, <<21160000, 4>>, <<22090000, 3>>,
     <<23040000, 2>>, <<24010000, 1>>, <<25000000, 1>> >>

\* 2 * (1 - stats.norm.cdf(abs(z))) as a rational, from z*z (a rational >= 0):
\* exactly 1 at z = 0 (cdf(0) = 0.5), else the tail at the next tabulated z
TwoTailed(z2) ==
    IF z2[1] = 0 THEN One
    ELSE LET x == LongDiv(z2[1], z2[2], 6)[1]
             rows == {i \in 1..Len(NormTail) : x < NormTail[i][1]}
         IN  IF rows = {} THEN Zero
             ELSE Rat(NormTail[CHOOSE i \in rows : \A j \in rows : i <= j][2], 1000000)

----------------------------------------------------------------------------
(* ABTest.analyze_test                                                     *)

\* the query without the user filter
QueryFirst_anyuser(creative_id) ==
    IF creative_id \in DOMAIN db
    THEN <<db[creative_id]>>
    ELSE <<>>

\* self.db.query(Creative).filter(Creative.id == id,
\*                                Creative.user_id == self.user_id).first():
\* <<row>> when found, <<>> (None) when not
QueryFirst(creative_id) ==
    IF creative_id \in DOMAIN db /\ db[creative_id].user_id = user_id
    THEN <<db[creative_id]>>
    ELSE <<>>

KnownMetrics == {"cvr", "install_rate", "ctr"}

\* the selection with cvr reading the installs
MetricCounts_installs(creative, metric) ==
    CASE metric = "cvr"          -> <<creative.installs, creative.clicks>>
      [] metric = "install_rate" -> <<creative.installs, creative.clicks>>
      [] metric = "ctr"          -> <<creative.clicks, creative.impressions>>

\* the (conversions, total) pair `metric` selects from a row
MetricCounts(creative, metric) ==
    CASE metric = "cvr"          -> <<creative.conversions, creative.clicks>>
      [] metric = "install_rate" -> <<creative.installs, creative.clicks>>
      [] metric = "ctr"          -> <<creative.clicks, creative.impressions>>

\* the gate with the comparison off by one
InsufficientData_offbyone(a_total, b_total) == a_total <= 100 \/ b_total <= 100

\* "Check for sufficient data": the condition of the early return
InsufficientData(a_total, b_total) == a_total < 100 \/ b_total < 100

\* x / total if total > 0 else 0
RateOf(x, total) == IF total > 0 THEN Rat(x, total) ELSE Zero

\* the z-test without the se == 0 branch: the division raises
ZTest_unguarded(a_conversions, a_total, b_conversions, b_total) ==
    LET rate_a == RateOf(a_conversions, a_total)
        rate_b == RateOf(b_conversions, b_total)
        pooled_rate == Rat(a_conversions + b_conversions, a_total + b_total)
        rest == RatSub(One, pooled_rate)
        inv == RatAdd(Rat(1, a_total), Rat(1, b_total))
        diff == RatSub(rate_b, rate_a)
    IN  IF pooled_rate[1] * rest[1] <= 0
        THEN [raised |-> TRUE]
        ELSE LET z2 == Frac(<<Abs(diff[1]), Abs(diff[1]), pooled_rate[2], rest[2], inv[2]>>,
                            <<diff[2], diff[2], pooled_rate[1], rest[1], inv[1]>>)
             IN  [raised |-> FALSE, pooled_rate |-> pooled_rate, se_zero |-> FALSE,
                  z_sign |-> Sign(diff[1]), z2 |-> z2, p_value |-> TwoTailed(z2)]

\* the z-test with the standard error taken from variant A's sample alone
ZTest_onesided(a_conversions, a_total, b_conversions, b_total) ==
    LET rate_a == RateOf(a_conversions, a_total)
        rate_b == RateOf(b_conversions, b_total)
        pooled_rate == Rat(a_conversions + b_conversions, a_total + b_total)
        rest == RatSub(One, pooled_rate)
        inv == RatAdd(Rat(1, a_total), Rat(1, a_total))
        diff == RatSub(rate_b, rate_a)
    IN  IF pooled_rate[1] * rest[1] < 0
        THEN [raised |-> TRUE]
        ELSE IF pooled_rate[1] * rest[1] = 0
        THEN [raised |-> FALSE, pooled_rate |-> pooled_rate, se_zero |-> TRUE,
              z_sign |-> 0, z2 |-> Zero, p_value |-> One]
        ELSE LET z2 == Frac(<<Abs(diff[1]), Abs(diff[1]), pooled_rate[2], rest[2], inv[2]>>,
                            <<diff[2], diff[2], pooled_rate[1], rest[1], inv[1]>>)
             IN  [raised |-> FALSE, pooled_rate |-> pooled_rate, se_zero |-> FALSE,
                  z_sign |-> Sign(diff[1]), z2 |-> z2, p_value |-> TwoTailed(z2)]

\* The two-proportion z-test.  se and z_score are square roots; the record
\* carries the sign of z_score and its square
\*     z2 = (rate_b - rate_a)^2 / (pooled_rate * (1 - pooled_rate) * (1/a_total + 1/b_total))
\* exactly, and whether se is 0.  math.sqrt raises ValueError on a negative
\* argument (pooled_rate above 1).
ZTest(a_conversions, a_total, b_conversions, b_total) ==
    LET rate_a == RateOf(a_conversions, a_total)
        rate_b == RateOf(b_conversions, b_total)
        pooled_rate == Rat(a_conversions + b_conversions, a_total + b_total)
        rest == RatSub(One, pooled_rate)
        inv == RatAdd(Rat(1, a_total), Rat(1, b_total))
        diff == RatSub(rate_b, rate_a)
    IN  IF pooled_rate[1] * rest[1] < 0
        THEN [raised |-> TRUE]
        ELSE IF pooled_rate[1] * rest[1] = 0
        THEN [raised |-> FALSE, pooled_rate |-> pooled_rate, se_zero |-> TRUE,
              z_sign |-> 0, z2 |-> Zero, p_value |-> One]
        ELSE LET z2 == Frac(<<Abs(diff[1]), Abs(diff[1]), pooled_rate[2], rest[2], inv[2]>>,
                            <<diff[2], diff[2], pooled_rate[1], rest[1], inv[1]>>)
             IN  [raised |-> FALSE, pooled_rate |-> pooled_rate, se_zero |-> FALSE,
                  z_sign |-> Sign(diff[1]), z2 |-> z2, p_value |-> TwoTailed(z2)]

\* round(z_score, 3) from the sign and the square of z_score
ZScoreRounded(z_sign, z2) ==
    Rat(z_sign * ISqrt(LongDiv(z2[1], z2[2], 6)[1]), 1000)

\* the lift as the absolute difference of the rates
Lift_absolute(rate_a, rate_b) ==
    IF RatLt(Zero, rate_a) THEN RatSub(rate_b, rate_a) ELSE Zero

\* "Lift calculation"
Lift(rate_a, rate_b) ==
    IF RatLt(Zero, rate_a) THEN RatDiv(RatSub(rate_b, rate_a), rate_a) ELSE Zero

\* rate * (1 - rate) / n in units of 10^-9, truncated (0 <= rate <= 1, n > 0)
VarOf(rate, n) ==
    LET x == RatMul(rate, RatSub(One, rate))
    IN  LongDiv(x[1], x[2], 9)[1] \div n

\* stats.norm.ppf((1 + 0.95) / 2) = 1.959964, to two decimals
Z975 == Rat(196, 100)

\* ABTest._confidence_interval with confidence = 0.95; se_diff is kept to
\* five decimals and margin to six.  math.sqrt raises ValueError when a rate
\* exceeds 1.
confidence_interval(rate_a, rate_b, n_a, n_b) ==
    LET bad_a == n_a > 0 /\ RatLt(One, rate_a)
        bad_b == n_b > 0 /\ RatLt(One, rate_b)
        var_a == IF n_a > 0 THEN VarOf(rate_a, n_a) ELSE 0
        var_b == IF n_b > 0 THEN VarOf(rate_b, n_b) ELSE 0
        se_diff == Rat(ISqrt(10 * (var_a + var_b)), 100000)
        diff == RatSub(rate_b, rate_a)
        margin == Rat(Round(RatMul(Z975, se_diff), 6), 1000000)
    IN  IF bad_a \/ bad_b
        THEN [raised |-> TRUE]
        ELSE [raised |-> FALSE,
              margin |-> margin,
              lift_lower |-> IF RatLt(Zero, rate_a)
                             THEN RatDiv(RatSub(diff, margin), rate_a) ELSE Zero,
              lift_upper |-> IF RatLt(Zero, rate_a)
                             THEN RatDiv(RatAdd(diff, margin), rate_a) ELSE Zero]

\* significance granted to every p_value
IsSignificant_any(p_value) == RatLe(p_value, One)

\* is_significant = p_value < 0.05
IsSignificant(p_value) == RatLt(p_value, Rat(5, 100))

\* the winner named the wrong way round
Winner_swapped(is_significant, rate_a, rate_b) ==
    IF is_significant
    THEN (IF RatLt(rate_a, rate_b) THEN "A" ELSE "B")
    ELSE "tie"

\* "Determine winner"
Winner(is_significant, rate_a, rate_b) ==
    IF is_significant
    THEN (IF RatLt(rate_a, rate_b) THEN "B" ELSE "A")
    ELSE "tie"

Recommendation(winner) ==
    CASE winner = "A"   -> "Scale variant A - statistically significant winner"
      [] winner = "B"   -> "Scale variant B - statistically significant winner"
      [] winner = "tie" -> "No clear winner yet - continue testing or stop test"

\* The call: the returned dict (result) and the locals at the return (frame);
\* an exception that escapes the call is the dict-less result [raised |-> name].
analyze_test(creative_a_id, creative_b_id, metric) ==
    LET creative_a == QueryFirst(creative_a_id)
        creative_b == QueryFirst(creative_b_id)
    IN
    IF creative_a = <<>> \/ creative_b = <<>>
    THEN [result |-> [error |-> "Creative not found"], frame |-> [line |-> 106]]
    ELSE IF metric \notin KnownMetrics
    THEN [result |-> [error |-> "Unknown metric: " \o metric], frame |-> [line |-> 125]]
    ELSE
    LET a == MetricCounts(creative_a[1], metric)
        b == MetricCounts(creative_b[1], metric)
        a_conversions == a[1]
        a_total == a[2]
        b_conversions == b[1]
        b_total == b[2]
    IN
    IF InsufficientData(a_total, b_total)
    THEN [result |-> [status |-> "insufficient_data",
                      message |-> "Need at least 100 samples per variant",
                      samples_a |-> a_total,
                      samples_b |-> b_total],
          frame |-> [line |-> 129, a_conversions |-> a_conversions, a_total |-> a_total,
                     b_conversions |-> b_conversions, b_total |-> b_total]]
    ELSE
    LET rate_a == RateOf(a_conversions, a_total)
        rate_b == RateOf(b_conversions, b_total)
        zt == ZTest(a_conversions, a_total, b_conversions, b_total)
    IN
    IF zt.raised
    THEN [result |-> [raised |-> "ValueError"], frame |-> [line |-> 142]]
    ELSE
    LET ci == confidence_interval(rate_a, rate_b, a_total, b_total)
        p_value == zt.p_value
        lift == Lift(rate_a, rate_b)
        is_significant == IsSignificant(p_value)
        winner == Winner(is_significant, rate_a, rate_b)
    IN
    IF ci.raised
    THEN [result |-> [raised |-> "ValueError"], frame |-> [line |-> 209]]
    ELSE
    [result |->
        [creative_a |-> [id |-> creative_a_id, name |-> creative_a[1].name,
                         rate |-> Rat(Round(rate_a, 4), 10000),
                         samples |-> a_total, conversions |-> a_conversions],
         creative_b |-> [id |-> creative_b_id, name |-> creative_b[1].name,
                         rate |-> Rat(Round(rate_b, 4), 10000),
                         samples |-> b_total, conversions |-> b_conversions],
         winner |-> winner,
         lift |-> Rat(Round(lift, 3), 1000),
         lift_percent |-> Rat(Round(RatMul(lift, <<100, 1>>), 1), 10),
         p_value |-> Rat(Round(p_value, 4), 10000),
         z_score |-> ZScoreRounded(zt.z_sign, zt.z2),
         statistical_significance |-> is_significant,
         confidence |-> IF RatLt(p_value, One)
                        THEN Rat(Round(RatSub(One, p_value), 3), 1000) ELSE Zero,
         confidence_interval |-> [lower |-> Rat(Round(ci.lift_lower, 3), 1000),
                                  upper |-> Rat(Round(ci.lift_upper, 3), 1000)],
         recommendation |-> Recommendation(winner),
         metric |-> metric],
     frame |->
        [line |-> 168, a_conversions |-> a_conversions, a_total |-> a_total,
         b_conversions |-> b_conversions, b_total |-> b_total,
         rate_a |-> rate_a, rate_b |-> rate_b,
         pooled_rate |-> zt.pooled_rate, se_zero |-> zt.se_zero,
         z_sign |-> zt.z_sign, z2 |-> zt.z2, p_value |-> p_value,
         lift |-> lift, ci_lower |-> ci.lift_lower, ci_upper |-> ci.lift_upper,
         is_significant |-> is_significant, winner |-> winner]]

----------------------------------------------------------------------------
(* The state after construction, and the calls                             *)

\* rows of the Creative table: counters with conversions <= clicks <=
\* impressions and installs <= clicks, cvr in hundredths of a percent
\* (creative.cvr / 10000 is the rate)
Profiles ==
    { [impressions |-> 1000, clicks |-> 100, conversions |-> 10,  installs |-> 20,  cvr |-> 1000],
      [impressions |-> 1000, clicks |-> 100, conversions |-> 20,  installs |-> 10,  cvr |-> 2000],
      [impressions |-> 2000, clicks |-> 99,  conversions |-> 5,   installs |-> 3,   cvr |-> 505],
      [impressions |-> 99,   clicks |-> 50,  conversions |-> 0,   installs |-> 0,   cvr |-> 0],
      [impressions |-> 100,  clicks |-> 100, conversions |-> 0,   installs |-> 0,   cvr |-> 0],
      [impressions |-> 200,  clicks |-> 100, conversions |-> 5,   installs |-> 3,   cvr |-> 500],
      [impressions |-> 200,  clicks |-> 100, conversions |-> 3,   installs |-> 5,   cvr |-> 300],
      [impressions |-> 2000, clicks |-> 200, conversions |-> 40,  installs |-> 79,  cvr |-> 2000],
      [impressions |-> 100,  clicks |-> 100, conversions |-> 100, installs |-> 28,  cvr |-> 10000] }

\* the profile of the rows after the second
LateProfile ==
    [impressions |-> 200, clicks |-> 100, conversions |-> 5, installs |-> 3, cvr |-> 500]

NumCreatives == 3

Users == {"u1", "u2"}

Row(profile, owner, id) ==
    [user_id |-> owner, name |-> id,
     impressions |-> profile.impressions, clicks |-> profile.clicks,
     conversions |-> profile.conversions, installs |-> profile.installs,
     cvr |-> profile.cvr]

\* the tables: the first two rows are the instance's user's, with any
\* profile; each later row is of either user
Tables ==
    { [id \in 1..NumCreatives |->
          IF id = 1 THEN Row(p1, "u1", id)
          ELSE IF id = 2 THEN Row(p2, "u1", id)
          ELSE Row(LateProfile, owners[id], id)] :
      p1 \in Profiles, p2 \in Profiles, owners \in [3..NumCreatives -> Users] }

\* EarlySignalsAnalyzer.THRESHOLDS; times in seconds
ThresholdTable ==
    [ctr_good    |-> Rat(3, 100),
     ctr_bad     |-> Rat(1, 100),
     bounce_good |-> Rat(40, 100),
     bounce_bad  |-> Rat(70, 100),
     time_good   |-> Rat(50, 10),
     time_bad    |-> Rat(20, 10)]

\* the period of the modelled generator
RngPeriod == 12

None == [none |-> TRUE]

Idle == [op |-> "none"]

Init ==
    /\ db \in Tables
    /\ user_id = "u1"
    /\ THRESHOLDS = ThresholdTable
    /\ rng \in 0..(RngPeriod - 1)
    /\ call = Idle
    /\ result = None
    /\ frame = None

\* ABTest(db, user_id) with the generator as imported (not yet drawn from)
InitAnalyze == Init /\ rng = 0

CreativeIds == 1..(NumCreatives + 1)

Metrics == KnownMetrics \cup {"roas"}

AnalyzeTest ==
    /\ call.op = "none"
    /\ \E creative_a_id \in CreativeIds, creative_b_id \in CreativeIds, metric \in Metrics :
          LET r == analyze_test(creative_a_id, creative_b_id, metric)
          IN  /\ call' = [op |-> "analyze_test",
                          args |-> [creative_a_id |-> creative_a_id,
                                    creative_b_id |-> creative_b_id,
                                    metric |-> metric]]
              /\ result' = r.result
              /\ frame' = r.frame
    /\ UNCHANGED <<db, user_id, THRESHOLDS, rng>>

\* the caller takes the returned value; the next call can start
Return ==
    /\ call.op # "none"
    /\ call' = Idle
    /\ result' = None
    /\ frame' = None
    /\ UNCHANGED <<db, user_id, THRESHOLDS, rng>>

NextAnalyze == AnalyzeTest \/ Return

SpecAnalyze == InitAnalyze /\ [][NextAnalyze]_vars

----------------------------------------------------------------------------
(* EarlySignalsAnalyzer.analyze_24h_performance                            *)

\* "Проверка что прошло достаточно времени": created_at is <<>> (None) or
\* <<t>>, t and utcnow in seconds; age_hours = (utcnow - t) / 3600
TooEarly(created_at, utcnow) ==
    /\ created_at # <<>>
    /\ RatLt(Rat(utcnow - created_at[1], 3600), <<6, 1>>)

\* the volume gate asking for both shortfalls at once
TooSmall_both(impressions, clicks) == impressions < 100 /\ clicks < 10

\* "Проверка минимального объема"
TooSmall(impressions, clicks) == impressions < 100 \/ clicks < 10

\* "CTR анализ": <<positive, negative, detail>>
CtrSignal(ctr) ==
    IF RatLe(THRESHOLDS.ctr_good, ctr) THEN <<2, 0, <<"+CTR">> >>
    ELSE IF RatLe(ctr, THRESHOLDS.ctr_bad) THEN <<0, 2, <<"-CTR">> >>
    ELSE <<0, 0, <<"=CTR">> >>

\* "Bounce rate анализ"
BounceSignal(bounce_rate) ==
    IF RatLe(bounce_rate, THRESHOLDS.bounce_good) THEN <<1, 0, <<"+Bounce">> >>
    ELSE IF RatLe(THRESHOLDS.bounce_bad, bounce_rate) THEN <<0, 1, <<"-Bounce">> >>
    ELSE <<0, 0, <<>> >>

\* the time check with a double penalty
TimeSignal_heavy(avg_time_on_page) ==
    IF RatLe(THRESHOLDS.time_good, avg_time_on_page) THEN <<1, 0, <<"+Time">> >>
    ELSE IF RatLe(avg_time_on_page, THRESHOLDS.time_bad) THEN <<0, 2, <<"-Time">> >>
    ELSE <<0, 0, <<>> >>

\* "Time on page анализ"
TimeSignal(avg_time_on_page) ==
    IF RatLe(THRESHOLDS.time_good, avg_time_on_page) THEN <<1, 0, <<"+Time">> >>
    ELSE IF RatLe(avg_time_on_page, THRESHOLDS.time_bad) THEN <<0, 1, <<"-Time">> >>
    ELSE <<0, 0, <<>> >>

\* the conversion check with a penalty for no conversions
ConversionSignal_penalty(conversions) ==
    IF conversions > 0 THEN <<1, 0, <<"+Early conversions">> >> ELSE <<0, 1, <<>> >>

\* "Ранние конверсии (бонус)"
ConversionSignal(conversions) ==
    IF conversions > 0 THEN <<1, 0, <<"+Early conversions">> >> ELSE <<0, 0, <<>> >>

\* the chain with strict comparisons
Classify_strict(score) ==
    IF score > 3
    THEN [signal |-> "strong_positive", recommendation |-> "scale",
          multiplier |-> Rat(15, 100), confidence |-> Rat(75, 100)]
    ELSE IF score > 1
    THEN [signal |-> "positive", recommendation |-> "continue",
          multiplier |-> Rat(12, 100), confidence |-> Rat(65, 100)]
    ELSE IF score > -1
    THEN [signal |-> "neutral", recommendation |-> "continue",
          multiplier |-> Rat(8, 100), confidence |-> Rat(50, 100)]
    ELSE IF score > -3
    THEN [signal |-> "negative", recommendation |-> "pause",
          multiplier |-> Rat(5, 100), confidence |-> Rat(70, 100)]
    ELSE [signal |-> "strong_negative", recommendation |-> "kill",
          multiplier |-> Rat(3, 100), confidence |-> Rat(80, 100)]

\* "Определить итоговый сигнал": the if/elif chain on score; multiplier is
\* the factor of predicted_cvr = ctr * multiplier
Classify(score) ==
    IF score >= 3
    THEN [signal |-> "strong_positive", recommendation |-> "scale",
          multiplier |-> Rat(15, 100), confidence |-> Rat(75, 100)]
    ELSE IF score >= 1
    THEN [signal |-> "positive", recommendation |-> "continue",
          multiplier |-> Rat(12, 100), confidence |-> Rat(65, 100)]
    ELSE IF score >= -1
    THEN [signal |-> "neutral", recommendation |-> "continue",
          multiplier |-> Rat(8, 100), confidence |-> Rat(50, 100)]
    ELSE IF score >= -3
    THEN [signal |-> "negative", recommendation |-> "pause",
          multiplier |-> Rat(5, 100), confidence |-> Rat(70, 100)]
    ELSE [signal |-> "strong_negative", recommendation |-> "kill",
          multiplier |-> Rat(3, 100), confidence |-> Rat(80, 100)]

\* EarlySignalsAnalyzer._get_next_action: the step and the percentage shown
get_next_action(recommendation, predicted_cvr) ==
    LET shown == Rat(Round(RatMul(predicted_cvr, <<100, 1>>), 1), 10)
    IN  CASE recommendation = "scale"    -> [step |-> "raise budget", predicted |-> shown]
          [] recommendation = "continue" -> [step |-> "continue test", predicted |-> shown]
          [] recommendation = "pause"    -> [step |-> "pause campaign", predicted |-> shown]
          [] recommendation = "kill"     -> [step |-> "stop campaign", predicted |-> shown]
          [] OTHER                       -> [step |-> "Wait for more data"]

\* The call; reasoning is modelled by the values its text is formatted from.
analyze_24h_performance(impressions, clicks, landing_views, landing_bounces, avg_time_on_page, conversions, created_at, utcnow) ==
    LET ctr == IF impressions > 0 THEN Rat(clicks, impressions) ELSE Zero
        bounce_rate == IF landing_views > 0 THEN Rat(landing_bounces, landing_views) ELSE Zero
        early_cvr == IF clicks > 0 THEN Rat(conversions, clicks) ELSE Zero
    IN
    IF TooEarly(created_at, utcnow)
    THEN [result |-> [signal |-> "insufficient_data",
                      confidence |-> Zero,
                      recommendation |-> "wait",
                      reasoning |-> [age_hours |->
                          Rat(Round(Rat(utcnow - created_at[1], 3600), 1), 10)]],
          frame |-> [line |-> 74, ctr |-> ctr, bounce_rate |-> bounce_rate,
                     early_cvr |-> early_cvr]]
    ELSE IF TooSmall(impressions, clicks)
    THEN [result |-> [signal |-> "insufficient_volume",
                      confidence |-> Zero,
                      recommendation |-> "wait",
                      reasoning |-> [impressions |-> impressions, clicks |-> clicks]],
          frame |-> [line |-> 83, ctr |-> ctr, bounce_rate |-> bounce_rate,
                     early_cvr |-> early_cvr]]
    ELSE
    LET c == CtrSignal(ctr)
        b == BounceSignal(bounce_rate)
        t == TimeSignal(avg_time_on_page)
        e == ConversionSignal(conversions)
        positive_signals == c[1] + b[1] + t[1] + e[1]
        negative_signals == c[2] + b[2] + t[2] + e[2]
        signals_detail == c[3] \o b[3] \o t[3] \o e[3]
        score == positive_signals - negative_signals
        class == Classify(score)
        predicted_cvr == RatMul(ctr, class.multiplier)
    IN
    [result |-> [signal |-> class.signal,
                 confidence |-> class.confidence,
                 recommendation |-> class.recommendation,
                 predicted_final_cvr |-> predicted_cvr,
                 reasoning |-> [score |-> score,
                                positive_signals |-> positive_signals,
                                negative_signals |-> negative_signals,
                                signals_detail |-> signals_detail],
                 metrics |-> [ctr_24h |-> ctr,
                              bounce_rate |-> bounce_rate,
                              avg_time_on_page |-> avg_time_on_page,
                              early_cvr |-> early_cvr,
                              conversions |-> conversions,
                              sample_size |-> clicks],
                 next_action |-> get_next_action(class.recommendation, predicted_cvr)],
     frame |-> [line |-> 159, ctr |-> ctr, bounce_rate |-> bounce_rate,
                early_cvr |-> early_cvr, positive_signals |-> positive_signals,
                negative_signals |-> negative_signals, score |-> score]]

\* the inputs of the calls
ImpressionValues == {99, 100, 500, 800, 1000}

ClickValues == {5, 9, 10, 15, 20}

\* <<landing_views, landing_bounces>>
LandingValues == {<<0, 0>>, <<18, 6>>, <<10, 4>>, <<10, 5>>, <<10, 7>>, <<4, 3>>}

\* avg_time_on_page, in tenths of a second
TimeValues == {12, 20, 35, 50, 65}

ConversionValues == {0, 2}

\* <<created_at, utcnow>>: no creation time, or an age of 3 h, 6 h less a
\* second, 6 h and 24 h
ClockValues ==
    {<<<<>>, 86400>>, <<<<0>>, 10800>>, <<<<0>>, 21599>>, <<<<0>>, 21600>>, <<<<0>>, 86400>>}

Analyze24h ==
    /\ call.op = "none"
    /\ \E impressions \in ImpressionValues, clicks \in ClickValues,
          landing \in LandingValues, time \in TimeValues,
          conversions \in ConversionValues, clock \in ClockValues :
          LET args == [impressions |-> impressions, clicks |-> clicks,
                       landing_views |-> landing[1], landing_bounces |-> landing[2],
                       avg_time_on_page |-> Rat(time, 10), conversions |-> conversions,
                       created_at |-> clock[1], utcnow |-> clock[2]]
              r == analyze_24h_performance(impressions, clicks, landing[1], landing[2],
                                           Rat(time, 10), conversions, clock[1], clock[2])
          IN  /\ call' = [op |-> "analyze_24h_performance", args |-> args]
              /\ result' = r.result
              /\ frame' = r.frame
    /\ UNCHANGED <<db, user_id, THRESHOLDS, rng>>

\* EarlySignalsAnalyzer(): no table is read; the generator is as imported
InitEarly ==
    /\ Init
    /\ rng = 0
    /\ db = [id \in 1..NumCreatives |-> Row(LateProfile, "u1", id)]

NextEarly == Analyze24h \/ Return

SpecEarly == InitEarly /\ [][NextEarly]_vars

----------------------------------------------------------------------------
(* bulk_analyze_24h                                                        *)

\* d.get(key, default)
Get(d, key, default) == IF key \in DOMAIN d THEN d[key] ELSE default

\* the loop body up to `result`: the analysis of one creative
BulkResult(creative, utcnow) ==
    [creative_id |-> Get(creative, "id", None),
     name |-> Get(creative, "name", None),
     analysis |-> analyze_24h_performance(
                      Get(creative, "impressions", 0), Get(creative, "clicks", 0),
                      Get(creative, "landing_views", 0), Get(creative, "landing_bounces", 0),
                      Get(creative, "avg_time_on_page", Zero), Get(creative, "conversions", 0),
                      Get(creative, "created_at", <<>>), utcnow).result]

\* the list the if/elif/else appends the result to
Bucket(analysis) ==
    IF analysis.recommendation = "scale" THEN "winners"
    ELSE IF analysis.recommendation \in {"continue", "pause"} THEN "potential"
    ELSE "losers"

\* winners.append(result), potential.append(result) or losers.append(result)
BulkAppend(lists, r) == [lists EXCEPT ![Bucket(r.analysis)] = Append(@, r)]

\* the for loop: the three lists after the creatives from i on
RECURSIVE BulkLoop(_, _, _, _)
BulkLoop(creatives_data, utcnow, i, lists) ==
    IF i > Len(creatives_data) THEN lists
    ELSE BulkLoop(creatives_data, utcnow, i + 1,
                  BulkAppend(lists, BulkResult(creatives_data[i], utcnow)))

\* "Расчет экономии" and the returned dict; next_step is modelled by the
\* counts its text is formatted from
BulkSummary(lists, total_creatives, killed_early, saved_budget) ==
    [result |->
        [winners |-> lists.winners,
         potential |-> lists.potential,
         losers |-> lists.losers,
         summary |->
            [total_analyzed |-> total_creatives,
             winners_count |-> Len(lists.winners),
             potential_count |-> Len(lists.potential),
             losers_count |-> Len(lists.losers),
             kill_rate |-> IF total_creatives > 0
                           THEN Rat(killed_early, total_creatives) ELSE Zero,
             estimated_savings_usd |-> saved_budget,
             next_step |-> [kill |-> killed_early,
                            continue |-> Len(lists.potential),
                            scale |-> Len(lists.winners)]]],
     frame |-> [line |-> 240, total_creatives |-> total_creatives,
                killed_early |-> killed_early, saved_budget |-> saved_budget]]

\* the lists of the loop, with killed_early = len(losers) and
\* saved_budget = killed_early * 40
BulkCounted(lists, total_creatives) ==
    BulkSummary(lists, total_creatives, Len(lists.losers), Len(lists.losers) * 40)

\* The call
bulk_analyze_24h(creatives_data, utcnow) ==
    BulkCounted(BulkLoop(creatives_data, utcnow, 1,
                         [winners |-> <<>>, potential |-> <<>>, losers |-> <<>>]),
                Len(creatives_data))

\* the dicts of creatives_data: one for each recommendation, one created at
\* time 0, one without metrics
BulkCreatives ==
    { [id |-> 1, name |-> "A", impressions |-> 500, clicks |-> 20, landing_views |-> 18,
       landing_bounces |-> 6, avg_time_on_page |-> Rat(65, 10), conversions |-> 2],
      [id |-> 2, name |-> "B", impressions |-> 1000, clicks |-> 20, landing_views |-> 10,
       landing_bounces |-> 5, avg_time_on_page |-> Rat(35, 10), conversions |-> 0],
      [id |-> 3, name |-> "C", impressions |-> 1000, clicks |-> 10, landing_views |-> 10,
       landing_bounces |-> 5, avg_time_on_page |-> Rat(35, 10), conversions |-> 0],
      [id |-> 4, name |-> "D", impressions |-> 1000, clicks |-> 10, landing_views |-> 10,
       landing_bounces |-> 7, avg_time_on_page |-> Rat(12, 10), conversions |-> 0],
      [id |-> 5, name |-> "E", impressions |-> 800, clicks |-> 5, landing_views |-> 4,
       landing_bounces |-> 3, avg_time_on_page |-> Rat(12, 10), conversions |-> 0],
      [id |-> 6, name |-> "F", impressions |-> 500, clicks |-> 20, landing_views |-> 18,
       landing_bounces |-> 6, avg_time_on_page |-> Rat(65, 10), conversions |-> 2,
       created_at |-> <<0>>],
      [id |-> 7, name |-> "G"] }

\* the longest creatives_data
MaxBulk == 3

\* datetime.utcnow() during the call: 3 h and 24 h after time 0
BulkClockValues == {10800, 86400}

BulkLists ==
    UNION {[1..n -> BulkCreatives] : n \in 0..MaxBulk}

BulkAnalyze24h ==
    /\ call.op = "none"
    /\ \E creatives_data \in BulkLists, utcnow \in BulkClockValues :
          LET r == bulk_analyze_24h(creatives_data, utcnow)
          IN  /\ call' = [op |-> "bulk_analyze_24h",
                          args |-> [creatives_data |-> creatives_data, utcnow |-> utcnow]]
              /\ result' = r.result
              /\ frame' = r.frame
    /\ UNCHANGED <<db, user_id, THRESHOLDS, rng>>

NextBulk == BulkAnalyze24h \/ Return

SpecBulk == InitEarly /\ [][NextBulk]_vars

----------------------------------------------------------------------------
(* ABTest.multi_armed_bandit                                               *)

\* The module-level generator of `random`, shared by every call: a state in
\* 0..RngPeriod-1 that each draw reads and advances.
RngNext(s) == (s + 1) % RngPeriod

\* a generator whose values lie in (0, 1]
RandomValue_closed(s) == Rat(s + 1, RngPeriod)

\* random.random(): a value in [0, 1)
RandomValue(s) == Rat(s, RngPeriod)

\* random.choice(seq): seq[_randbelow(len(seq))]
RandomChoice(s, seq) == seq[(s % Len(seq)) + 1]

\* self.db.query(Creative).filter(Creative.id.in_(creative_ids),
\*                                Creative.user_id == self.user_id).all():
\* the matching rows in table order, each with its id
RECURSIVE QueryAll(_, _)
QueryAll(creative_ids, id) ==
    IF id > Len(db) THEN <<>>
    ELSE (IF id \in creative_ids /\ db[id].user_id = user_id
          THEN <<[id |-> id, row |-> db[id]]>> ELSE <<>>) \o QueryAll(creative_ids, id + 1)

\* "Calculate CVR for each creative"
RECURSIVE Results(_)
Results(creatives) ==
    IF creatives = <<>> THEN <<>>
    ELSE LET creative == Head(creatives)
         IN  <<[creative_id |-> creative.id,
                cvr |-> IF creative.row.cvr # 0 THEN Rat(creative.row.cvr, 10000) ELSE Zero,
                samples |-> creative.row.clicks]>> \o Results(Tail(creatives))

\* r placed in front of the entries of the same cvr
RECURSIVE InsertByCvr_front(_, _)
InsertByCvr_front(r, sorted) ==
    IF sorted = <<>> THEN <<r>>
    ELSE IF RatLe(Head(sorted).cvr, r.cvr) THEN <<r>> \o sorted
    ELSE <<Head(sorted)>> \o InsertByCvr_front(r, Tail(sorted))

\* r placed in a list sorted by cvr, descending, behind the entries of the
\* same cvr
RECURSIVE InsertByCvr(_, _)
InsertByCvr(r, sorted) ==
    IF sorted = <<>> THEN <<r>>
    ELSE IF RatLt(Head(sorted).cvr, r.cvr) THEN <<r>> \o sorted
    ELSE <<Head(sorted)>> \o InsertByCvr(r, Tail(sorted))

\* results.sort(key=lambda x: x["cvr"], reverse=True): stable
RECURSIVE SortByCvr(_)
SortByCvr(results) ==
    IF results = <<>> THEN <<>>
    ELSE InsertByCvr(results[Len(results)], SortByCvr(SubSeq(results, 1, Len(results) - 1)))

\* the policy exploiting the last entry of the leaderboard
EpsilonGreedy_last(results, epsilon, s) ==
    IF RatLt(RandomValue(s), epsilon)
    THEN [chosen |-> RandomChoice(RngNext(s), results), reason |-> "explore",
          draw |-> RandomValue(s), rng |-> RngNext(RngNext(s))]
    ELSE [chosen |-> results[Len(results)], reason |-> "exploit_winner",
          draw |-> RandomValue(s), rng |-> RngNext(s)]

\* "Epsilon-greedy allocation": the choice, its reason and the generator's
\* state after the draws
EpsilonGreedy(results, epsilon, s) ==
    IF RatLt(RandomValue(s), epsilon)
    THEN [chosen |-> RandomChoice(RngNext(s), results), reason |-> "explore",
          draw |-> RandomValue(s), rng |-> RngNext(RngNext(s))]
    ELSE [chosen |-> results[1], reason |-> "exploit_winner",
          draw |-> RandomValue(s), rng |-> RngNext(s)]

\* the shares with the chosen variant's exploration share left out
Allocation_exploitonly(results, chosen, epsilon) ==
    LET exploit_pct == RatSub(One, epsilon)
        explore_pct_per_variant == RatDiv(epsilon, <<Len(results), 1>>)
        ids == {results[i].creative_id : i \in 1..Len(results)}
    IN  [id \in ids |->
            IF id = chosen.creative_id
            THEN exploit_pct
            ELSE explore_pct_per_variant]

\* "Calculate allocation percentages": creative_id -> share
Allocation(results, chosen, epsilon) ==
    LET exploit_pct == RatSub(One, epsilon)
        explore_pct_per_variant == RatDiv(epsilon, <<Len(results), 1>>)
        ids == {results[i].creative_id : i \in 1..Len(results)}
    IN  [id \in ids |->
            IF id = chosen.creative_id
            THEN RatAdd(exploit_pct, explore_pct_per_variant)
            ELSE explore_pct_per_variant]

\* the call returning an empty plan when no row is found
multi_armed_bandit_silent(creative_ids, epsilon) ==
    LET creatives == QueryAll(creative_ids, 1)
    IN
    IF creatives = <<>>
    THEN [result |-> [next_creative |-> None, allocation |-> <<>>,
                      reason |-> "exploit_winner", epsilon |-> epsilon,
                      leaderboard |-> <<>>],
          frame |-> [line |-> 284], rng |-> rng]
    ELSE
    LET results == SortByCvr(Results(creatives))
        pick == EpsilonGreedy(results, epsilon, rng)
        allocation == Allocation(results, pick.chosen, epsilon)
    IN
    [result |-> [next_creative |-> pick.chosen.creative_id,
                 allocation |-> allocation,
                 reason |-> pick.reason,
                 epsilon |-> epsilon,
                 leaderboard |-> results],
     frame |-> [line |-> 284, creatives |-> creatives, results |-> results,
                chosen |-> pick.chosen, reason |-> pick.reason, draw |-> pick.draw],
     rng |-> pick.rng]

\* The call: the returned dict, the locals and the generator's state after it
multi_armed_bandit(creative_ids, epsilon) ==
    LET creatives == QueryAll(creative_ids, 1)
    IN
    IF creatives = <<>>
    THEN [result |-> [error |-> "No creatives found"],
          frame |-> [line |-> 248], rng |-> rng]
    ELSE
    LET results == SortByCvr(Results(creatives))
        pick == EpsilonGreedy(results, epsilon, rng)
        allocation == Allocation(results, pick.chosen, epsilon)
    IN
    [result |-> [next_creative |-> pick.chosen.creative_id,
                 allocation |-> allocation,
                 reason |-> pick.reason,
                 epsilon |-> epsilon,
                 leaderboard |-> results],
     frame |-> [line |-> 284, creatives |-> creatives, results |-> results,
                chosen |-> pick.chosen, reason |-> pick.reason, draw |-> pick.draw],
     rng |-> pick.rng]

\* the exploration rates of the calls
Epsilons == {Zero, Rat(1, 10), Rat(1, 2), One}

MultiArmedBandit ==
    /\ call.op = "none"
    /\ \E creative_ids \in SUBSET (1..NumCreatives), epsilon \in Epsilons :
          LET r == multi_armed_bandit(creative_ids, epsilon)
          IN  /\ call' = [op |-> "multi_armed_bandit",
                          args |-> [creative_ids |-> creative_ids, epsilon |-> epsilon],
                          rng |-> rng]
              /\ result' = r.result
              /\ frame' = r.frame
              /\ rng' = r.rng
    /\ UNCHANGED <<db, user_id, THRESHOLDS>>

NextBandit == MultiArmedBandit \/ Return

SpecBandit == Init /\ [][NextBandit]_vars

----------------------------------------------------------------------------
(* ABTest.calculate_sample_size                                            *)

\* stats.norm.ppf, tabulated to four decimals: <<p, z>> with p in
\* thousandths and z in ten-thousandths
NormPpf == << <<975, 19600>>, <<950, 16449>>, <<900, 12816>>, <<800, 8416>> >>

\* stats.norm.ppf(p) for a tabulated p
Ppf(p) ==
    LET i == CHOOSE j \in 1..Len(NormPpf) : Rat(NormPpf[j][1], 1000) = p
    IN  Rat(NormPpf[i][2], 10000)

\* math.ceil
Ceil(a) == -((-a[1]) \div a[2])

\* The call: the returned integer as [value |-> n], or the exception raised.
\* (z_alpha + z_beta) ** 2 is kept to three decimals; the result is within a
\* few units of the floating-point one and has its sign.
calculate_sample_size(baseline_cvr, minimum_detectable_effect, alpha, power) ==
    LET z_alpha == Ppf(RatSub(One, RatDiv(alpha, <<2, 1>>)))
        z_beta == Ppf(power)
        variant_cvr == RatMul(baseline_cvr, RatAdd(One, minimum_detectable_effect))
        p_pooled == RatDiv(RatAdd(baseline_cvr, variant_cvr), <<2, 1>>)
        z_sum == RatAdd(z_alpha, z_beta)
        z_sq == Rat(Round(RatMul(z_sum, z_sum), 3), 1000)
        diff == RatSub(variant_cvr, baseline_cvr)
        denominator == RatMul(diff, diff)
        locals == [z_alpha |-> z_alpha, z_beta |-> z_beta, variant_cvr |-> variant_cvr,
                   p_pooled |-> p_pooled, denominator |-> denominator]
    IN
    IF denominator = Zero
    THEN \* numerator / denominator: float division by zero
         [result |-> [raised |-> "ZeroDivisionError"], frame |-> [line |-> 67] @@ locals]
    ELSE
    LET spread == RatMul(<<2, 1>>, RatMul(p_pooled, RatSub(One, p_pooled)))
        quotient == RatMul(z_sq, RatMul(spread, RatInv(denominator)))
    IN  [result |-> [value |-> Ceil(quotient)], frame |-> [line |-> 69] @@ locals]

\* the arguments of the calls
BaselineValues ==
    {Rat(-1, 20), Zero, Rat(1, 100), Rat(1, 20), Rat(1, 10), Rat(1, 2), Rat(19, 20),
     One, Rat(6, 5)}

EffectValues == {Zero, Rat(1, 10), Rat(1, 5), Rat(1, 2)}

AlphaValues == {Rat(5, 100), Rat(1, 10)}

PowerValues == {Rat(8, 10), Rat(9, 10)}

CalculateSampleSize ==
    /\ call.op = "none"
    /\ \E baseline_cvr \in BaselineValues, minimum_detectable_effect \in EffectValues,
          alpha \in AlphaValues, power \in PowerValues :
          LET r == calculate_sample_size(baseline_cvr, minimum_detectable_effect, alpha, power)
          IN  /\ call' = [op |-> "calculate_sample_size",
                          args |-> [baseline_cvr |-> baseline_cvr,
                                    minimum_detectable_effect |-> minimum_detectable_effect,
                                    alpha |-> alpha, power |-> power]]
              /\ result' = r.result
              /\ frame' = r.frame
    /\ UNCHANGED <<db, user_id, THRESHOLDS, rng>>

NextSample == CalculateSampleSize \/ Return

SpecSample == InitAnalyze /\ [][NextSample]_vars

----------------------------------------------------------------------------
(* The four operations and the bulk analysis together                      *)

\* one instance of each class in one process: two rows of the instance's
\* user with rates 0.05 and 0.03, the later rows of either user, the
\* generator in any state
InitEngine ==
    /\ Init
    /\ db[1] = Row(LateProfile, "u1", 1)
    /\ db[2] = Row([impressions |-> 200, clicks |-> 100, conversions |-> 3,
                    installs |-> 5, cvr |-> 300], "u1", 2)

\* the operations of one ABTest instance
NextABTest == AnalyzeTest \/ CalculateSampleSize \/ MultiArmedBandit \/ Return

SpecABTest == InitEngine /\ [][NextABTest]_vars

Next ==
    \/ AnalyzeTest
    \/ CalculateSampleSize
    \/ Analyze24h
    \/ BulkAnalyze24h
    \/ MultiArmedBandit
    \/ Return

Spec == InitEngine /\ [][Next]_vars

----------------------------------------------------------------------------
(* Properties of analyze_test                                              *)

\* the rows a call of analyze_test names, when both are the user's
Found(id) == id \in DOMAIN db /\ db[id].user_id = user_id

AnalyzedPair ==
    /\ call.op = "analyze_test"
    /\ Found(call.args.creative_a_id)
    /\ Found(call.args.creative_b_id)
    /\ call.args.metric \in {"ctr", "cvr", "install_rate"}

RowA == db[call.args.creative_a_id]

RowB == db[call.args.creative_b_id]

\* the numerator and the denominator the metric names
NumeratorOf(row, metric) ==
    IF metric = "ctr" THEN row.clicks
    ELSE IF metric = "cvr" THEN row.conversions
    ELSE row.installs

DenominatorOf(row, metric) == IF metric = "ctr" THEN row.impressions ELSE row.clicks

NumA == NumeratorOf(RowA, call.args.metric)

DenA == DenominatorOf(RowA, call.args.metric)

NumB == NumeratorOf(RowB, call.args.metric)

DenB == DenominatorOf(RowB, call.args.metric)

IsVerdict == call.op = "analyze_test" /\ "winner" \in DOMAIN result

\* C1: analyze_test, volume gate.  For every pair of found variants and every
\* known metric: if the denominator of A or of B is below 100 the result is
\* the insufficient_data signal with both sample sizes and none of winner,
\* p_value, z_score, whatever the numerators; with both denominators at
\* least 100 (exactly 100 included) the result is not that signal.
C1_VolumeGate ==
    AnalyzedPair =>
        IF DenA < 100 \/ DenB < 100
        THEN /\ DOMAIN result = {"status", "message", "samples_a", "samples_b"}
             /\ result.status = "insufficient_data"
             /\ result.samples_a = DenA
             /\ result.samples_b = DenB
             /\ {"winner", "p_value", "z_score"} \cap DOMAIN result = {}
        ELSE "status" \notin DOMAIN result

\* a call with 100 samples on one side and 99 on the other, numerators not 0
C1_Witness ==
    /\ AnalyzedPair
    /\ DenA = 100 /\ DenB = 99 /\ NumA > 0 /\ NumB > 0
    /\ "status" \in DOMAIN result
    /\ result.status = "insufficient_data"

\* C2: analyze_test, verdict.  significant is true exactly when the computed
\* p_value is below 0.05 (0.05 itself is not significant); when significant
\* the winner is the variant with the larger rate, otherwise it is tie.
C2_Verdict ==
    IsVerdict =>
        /\ result.statistical_significance <=> (frame.p_value[1] * 100 < 5 * frame.p_value[2])
        /\ result.statistical_significance =>
              \/ result.winner = "B" /\ NumB * DenA > NumA * DenB
              \/ result.winner = "A" /\ NumA * DenB > NumB * DenA
        /\ ~result.statistical_significance => result.winner = "tie"

\* 10/100 against 20/100 on cvr: significant, B wins
C2_Witness ==
    /\ IsVerdict
    /\ call.args.metric = "cvr"
    /\ <<NumA, DenA, NumB, DenB>> = <<10, 100, 20, 100>>
    /\ result.statistical_significance
    /\ result.winner = "B"

\* C3: analyze_test, degenerate statistics.  Whenever both variants pass the
\* volume gate and the pooled rate is 0 or 1, the call returns a verdict with
\* z_score = 0, p_value = 1.0, significant = false and winner = tie.
C3_Degenerate ==
    (/\ AnalyzedPair
     /\ DenA >= 100 /\ DenB >= 100
     /\ (NumA + NumB = 0 \/ NumA + NumB = DenA + DenB))
    => /\ "winner" \in DOMAIN result
       /\ result.z_score = <<0, 1>>
       /\ result.p_value = <<1, 1>>
       /\ result.statistical_significance = FALSE
       /\ result.winner = "tie"

\* a verdict on two variants whose pooled rate is 1
C3_Witness ==
    /\ IsVerdict
    /\ NumA + NumB = DenA + DenB
    /\ result.p_value = <<1, 1>>

\* the call with A and B swapped
Swapped == analyze_test(call.args.creative_b_id, call.args.creative_a_id, call.args.metric)

\* C4 as stated: for every two variants that pass the volume gate, swapping A
\* and B flips the sign of z_score and of lift and leaves p_value and
\* significant unchanged.
C4_Original ==
    IsVerdict =>
        /\ Swapped.result.z_score = RatNeg(result.z_score)
        /\ Sign(Swapped.result.lift[1]) = -Sign(result.lift[1])
        /\ Swapped.result.p_value = result.p_value
        /\ Swapped.result.statistical_significance = result.statistical_significance

\* C4, amended: swapping A and B negates z_score and leaves p_value and
\* significant unchanged; it flips the sign of the lift when both rates are
\* positive (as for 10/100 against 20/100); when exactly one rate is 0, the
\* lift is 0 with that variant as A and -1 with it as B.
C4_Symmetry ==
    IsVerdict =>
        /\ "winner" \in DOMAIN Swapped.result
        /\ Swapped.result.z_score = RatNeg(result.z_score)
        /\ Swapped.result.p_value = result.p_value
        /\ Swapped.result.statistical_significance = result.statistical_significance
        /\ (NumA > 0 /\ NumB > 0) =>
              Sign(Swapped.frame.lift[1]) = -Sign(frame.lift[1])
        /\ (NumA = 0 /\ NumB > 0) =>
              frame.lift = <<0, 1>> /\ Swapped.frame.lift = <<-1, 1>>
        /\ (NumA > 0 /\ NumB = 0) =>
              frame.lift = <<-1, 1>> /\ Swapped.frame.lift = <<0, 1>>

\* 10/100 against 20/100 on cvr: z_score 1.98 and lift +1, swapped -1.98 and -0.5
C4_Witness ==
    /\ IsVerdict
    /\ call.args.metric = "cvr"
    /\ <<NumA, DenA, NumB, DenB>> = <<10, 100, 20, 100>>
    /\ result.z_score = <<99, 50>> /\ Swapped.result.z_score = <<-99, 50>>
    /\ result.lift = <<1, 1>> /\ Swapped.result.lift = <<-1, 2>>

----------------------------------------------------------------------------
(* Properties of analyze_24h_performance                                   *)

IsEarly == call.op = "analyze_24h_performance"

\* the age is known and below 6 hours
AgeBelowSix ==
    /\ call.args.created_at # <<>>
    /\ call.args.utcnow - call.args.created_at[1] < 6 * 3600

VolumeShort == call.args.impressions < 100 \/ call.args.clicks < 10

ScoreSignals == {"strong_negative", "negative", "neutral", "positive", "strong_positive"}

\* C5 as stated: whenever the variant's age is known and below 6 hours the
\* result has signal insufficient_time and recommendation wait, whatever the
\* other inputs are.
C5_Original ==
    (IsEarly /\ AgeBelowSix) =>
        /\ result.signal = "insufficient_time"
        /\ result.recommendation = "wait"

CtrTerm ==
    IF call.args.clicks * 100 >= 3 * call.args.impressions THEN 2
    ELSE IF call.args.clicks * 100 <= call.args.impressions THEN -2
    ELSE 0

BounceTerm ==
    IF call.args.landing_views = 0 THEN 1
    ELSE IF call.args.landing_bounces * 100 <= 40 * call.args.landing_views THEN 1
    ELSE IF call.args.landing_bounces * 100 >= 70 * call.args.landing_views THEN -1
    ELSE 0

TimeTerm ==
    IF call.args.avg_time_on_page[1] >= 5 * call.args.avg_time_on_page[2] THEN 1
    ELSE IF call.args.avg_time_on_page[1] <= 2 * call.args.avg_time_on_page[2] THEN -1
    ELSE 0

ConversionTerm == IF call.args.conversions > 0 THEN 1 ELSE 0

\* C7: analyze_24h_performance, scoring.  For every input that passes both
\* gates the score is the sum of the CTR term (+2 / -2 / 0), the bounce term
\* (+1 / -1 / 0, bounce_rate 0 without landing views), the time term
\* (+1 / -1 / 0) and the conversion term (+1 or 0).
C7_Score ==
    (IsEarly /\ ~AgeBelowSix /\ ~VolumeShort) =>
        /\ "metrics" \in DOMAIN result
        /\ frame.score = CtrTerm + BounceTerm + TimeTerm + ConversionTerm
        /\ result.reasoning.score = frame.score
        /\ result.reasoning.positive_signals - result.reasoning.negative_signals = frame.score

\* 500 impressions, 20 clicks, 6 bounces of 18 views, 6.5 s, 2 conversions: 5
C7_Witness ==
    /\ IsEarly
    /\ call.args.impressions = 500 /\ call.args.clicks = 20
    /\ call.args.landing_views = 18 /\ call.args.landing_bounces = 6
    /\ call.args.avg_time_on_page = <<13, 2>> /\ call.args.conversions = 2
    /\ "metrics" \in DOMAIN result
    /\ result.reasoning.score = 5
    /\ result.signal = "strong_positive"

\* predicted_final_cvr = ctr * percent / 100
PredictedIs(percent) ==
    result.predicted_final_cvr[1] * call.args.impressions * 100
        = call.args.clicks * percent * result.predicted_final_cvr[2]

Band(signal, recommendation, confidence, percent) ==
    /\ result.signal = signal
    /\ result.recommendation = recommendation
    /\ result.confidence[1] * 100 = confidence * result.confidence[2]
    /\ PredictedIs(percent)

\* C8: analyze_24h_performance, classification.  The score alone gives signal,
\* recommendation, confidence and the factor of the predicted CVR: >= 3
\* strong_positive/scale/0.75/0.15, 1..2 positive/continue/0.65/0.12, -1..0
\* neutral/continue/0.50/0.08, -3..-2 negative/pause/0.70/0.05, <= -4
\* strong_negative/kill/0.80/0.03; every score is in exactly one band.
C8_Classification ==
    (IsEarly /\ "metrics" \in DOMAIN result) =>
        LET score == result.reasoning.score
        IN  /\ score >= 3 => Band("strong_positive", "scale", 75, 15)
            /\ score \in 1..2 => Band("positive", "continue", 65, 12)
            /\ score \in -1..0 => Band("neutral", "continue", 50, 8)
            /\ score \in -3..-2 => Band("negative", "pause", 70, 5)
            /\ score <= -4 => Band("strong_negative", "kill", 80, 3)
            /\ Cardinality({b \in 1..5 :
                   \/ b = 1 /\ score >= 3
                   \/ b = 2 /\ score \in 1..2
                   \/ b = 3 /\ score \in -1..0
                   \/ b = 4 /\ score \in -3..-2
                   \/ b = 5 /\ score <= -4}) = 1

\* a score of -4: strong_negative, kill
C8_Witness ==
    /\ IsEarly
    /\ "metrics" \in DOMAIN result
    /\ result.reasoning.score = -4
    /\ result.recommendation = "kill"
    /\ result.confidence = <<4, 5>>

\* the three negative checks fire together: CTR <= 0.01,
\* bounce_rate >= 0.70 (with landing views) and avg_time_on_page <= 2.0
AllNegative ==
    /\ call.args.clicks * 100 <= call.args.impressions
    /\ call.args.landing_views > 0
    /\ call.args.landing_bounces * 10 >= 7 * call.args.landing_views
    /\ call.args.avg_time_on_page[1] <= 2 * call.args.avg_time_on_page[2]

\* C21: analyze_24h_performance, score range.  For every input that passes
\* both gates the score lies between -4 and +5 inclusive; the result is
\* strong_negative / kill only when the three negative checks fire together
\* and conversions = 0 (and then it is); an input with conversions > 0 is
\* never killed.
C21_ScoreRange ==
    (IsEarly /\ ~AgeBelowSix /\ ~VolumeShort) =>
        /\ -4 <= result.reasoning.score /\ result.reasoning.score <= 5
        /\ (result.signal = "strong_negative" \/ result.recommendation = "kill") <=>
              (AllNegative /\ call.args.conversions = 0)
        /\ call.args.conversions > 0 =>
              result.recommendation # "kill" /\ result.signal # "strong_negative"

\* the three negative checks fire and there are conversions: score -3, pause
C21_Witness ==
    /\ IsEarly /\ ~AgeBelowSix /\ ~VolumeShort
    /\ AllNegative
    /\ call.args.conversions > 0
    /\ result.reasoning.score = -3
    /\ result.recommendation = "pause"

----------------------------------------------------------------------------
(* Properties of multi_armed_bandit                                        *)

IsAllocation == call.op = "multi_armed_bandit" /\ "allocation" \in DOMAIN result

\* the variant set: the requested rows of the instance's user
VariantIds == {id \in call.args.creative_ids : Found(id)}

RECURSIVE SumOver(_, _)
SumOver(f, ids) ==
    IF ids = {} THEN <<0, 1>>
    ELSE LET id == CHOOSE x \in ids : TRUE
         IN  RatAdd(f[id], SumOver(f, ids \ {id}))

\* w = num / den
Equals(w, num, den) == w[1] * den = num * w[2]

\* C9: multi_armed_bandit, weights.  For every non-empty variant set of size
\* n and every epsilon in [0, 1], in both branches of the draw: the chosen
\* variant's weight is (1 - epsilon) + epsilon/n, every other weight is
\* epsilon/n, every weight is in [0, 1] and the weights sum to 1; a single
\* variant is chosen with weight 1.
C9_Weights ==
    (call.op = "multi_armed_bandit" /\ VariantIds # {}) =>
        LET n == Cardinality(VariantIds)
            e == call.args.epsilon
            w == result.allocation
        IN  /\ "allocation" \in DOMAIN result
            /\ DOMAIN w = VariantIds
            /\ result.next_creative \in VariantIds
            /\ \A id \in VariantIds :
                  /\ id = result.next_creative =>
                        Equals(w[id], (e[2] - e[1]) * n + e[1], e[2] * n)
                  /\ id # result.next_creative => Equals(w[id], e[1], e[2] * n)
                  /\ 0 <= w[id][1] /\ w[id][1] <= w[id][2]
            /\ SumOver(w, VariantIds) = <<1, 1>>
            /\ n = 1 => w[result.next_creative] = <<1, 1>>

\* three variants, epsilon 1/2, exploring, a variant other than the leader chosen
C9_Witness ==
    /\ IsAllocation
    /\ Cardinality(VariantIds) = 3
    /\ call.args.epsilon = <<1, 2>>
    /\ result.reason = "explore"
    /\ result.next_creative # result.leaderboard[1].creative_id
    /\ result.allocation[result.next_creative] = <<2, 3>>

\* a call on two variants of rates 0.05 and 0.03 with epsilon 0.1
TwoVariantCall ==
    /\ call.op = "multi_armed_bandit"
    /\ Cardinality(VariantIds) = 2
    /\ {db[id].cvr : id \in VariantIds} = {500, 300}
    /\ call.args.epsilon = <<1, 10>>

TopVariant == CHOOSE id \in VariantIds : db[id].cvr = 500

OtherVariant == CHOOSE id \in VariantIds : db[id].cvr = 300

\* C10 as stated: two variants of rates 0.05 and 0.03 with epsilon 0.1 give
\* the weights {top: 0.95, other: 0.05} for every outcome of the draw.
C10_Original ==
    TwoVariantCall =>
        /\ result.allocation[TopVariant] = <<19, 20>>
        /\ result.allocation[OtherVariant] = <<1, 20>>

\* C10, amended: two variants of rates 0.05 and 0.03 with epsilon 0.1 give
\* the weights {chosen: 0.95, other: 0.05} for every outcome of the draw; the
\* chosen variant is the top-rated one whenever the draw exploits, and either
\* variant when it explores.
C10_TwoVariants ==
    TwoVariantCall =>
        /\ DOMAIN result.allocation = VariantIds
        /\ result.allocation[result.next_creative] = <<19, 20>>
        /\ \A id \in VariantIds \ {result.next_creative} :
              result.allocation[id] = <<1, 20>>
        /\ result.reason = "exploit_winner" => result.next_creative = TopVariant
        /\ result.reason = "exploit_winner" <=> ~RatLt(frame.draw, <<1, 10>>)

\* the draw explores and picks the variant of rate 0.03, which gets 0.95
C10_Witness ==
    /\ TwoVariantCall
    /\ result.reason = "explore"
    /\ result.next_creative = OtherVariant
    /\ result.allocation[OtherVariant] = <<19, 20>>
    /\ result.allocation[TopVariant] = <<1, 20>>


\* C14: multi_armed_bandit, empty variant set.  When no variant is supplied,
\* or none of the requested ids is found, the result is an error and nothing
\* else: no next variant, no weight map, no leaderboard.
C14_EmptySet ==
    (call.op = "multi_armed_bandit" /\ VariantIds = {}) =>
        /\ DOMAIN result = {"error"}
        /\ result.error = "No creatives found"
        /\ {"next_creative", "allocation", "leaderboard"} \cap DOMAIN result = {}

\* ids are requested and none of them is a row of the instance's user
C14_Witness ==
    /\ call.op = "multi_armed_bandit"
    /\ call.args.creative_ids # {}
    /\ VariantIds = {}
    /\ result = [error |-> "No creatives found"]

\* the rate the code derives from a row
RateOfRow(id) == IF db[id].cvr # 0 THEN Rat(db[id].cvr, 10000) ELSE Zero

\* C11: multi_armed_bandit, choice.  The leaderboard is the variant set
\* sorted by rate, descending, with variants of equal rate in their input
\* order; when the uniform draw is >= epsilon, the reason is exploit_winner
\* and the chosen variant is the first entry of the leaderboard, a variant of
\* maximal rate; when the draw is < epsilon, the reason is explore and the
\* chosen variant is a member of the variant set; in both cases the chosen id
\* is a key of the weight map.
C11_Choice ==
    (call.op = "multi_armed_bandit" /\ VariantIds # {}) =>
        LET lb == result.leaderboard
            draw == RandomValue(call.rng)
        IN  /\ Len(lb) = Cardinality(VariantIds)
            /\ {lb[i].creative_id : i \in 1..Len(lb)} = VariantIds
            /\ \A i \in 1..Len(lb) : lb[i].cvr = RateOfRow(lb[i].creative_id)
            /\ \A i, j \in 1..Len(lb) :
                  i < j => /\ RatLe(lb[j].cvr, lb[i].cvr)
                           /\ lb[i].cvr = lb[j].cvr => lb[i].creative_id < lb[j].creative_id
            /\ ~RatLt(draw, call.args.epsilon) =>
                  /\ result.reason = "exploit_winner"
                  /\ result.next_creative = lb[1].creative_id
                  /\ \A id \in VariantIds : RatLe(RateOfRow(id), RateOfRow(result.next_creative))
            /\ RatLt(draw, call.args.epsilon) =>
                  /\ result.reason = "explore"
                  /\ result.next_creative \in VariantIds
            /\ result.next_creative \in DOMAIN result.allocation

\* three variants, the first two of the leaderboard of equal rate, the draw
\* exploiting: the chosen one is the earlier of the two in the input
C11_Witness ==
    /\ IsAllocation
    /\ Len(result.leaderboard) = 3
    /\ result.leaderboard[1].cvr = result.leaderboard[2].cvr
    /\ result.leaderboard[3].cvr # result.leaderboard[2].cvr
    /\ result.reason = "exploit_winner"
    /\ result.next_creative = result.leaderboard[1].creative_id
    /\ result.leaderboard[1].creative_id < result.leaderboard[2].creative_id


----------------------------------------------------------------------------
(* More properties of analyze_test                                         *)

\* a call of analyze_test on two rows of the instance's user, any metric name
BothFound ==
    /\ call.op = "analyze_test"
    /\ Found(call.args.creative_a_id)
    /\ Found(call.args.creative_b_id)

\* the result is computed from num_a/den_a and num_b/den_b
ComputedFrom(num_a, den_a, num_b, den_b) ==
    /\ "error" \notin DOMAIN result
    /\ frame.a_conversions = num_a /\ frame.a_total = den_a
    /\ frame.b_conversions = num_b /\ frame.b_total = den_b
    /\ IF "status" \in DOMAIN result
       THEN result.samples_a = den_a /\ result.samples_b = den_b
       ELSE /\ result.creative_a.conversions = num_a
            /\ result.creative_a.samples = den_a
            /\ result.creative_a.rate = Rat(Round(Rat(num_a, den_a), 4), 10000)
            /\ result.creative_b.conversions = num_b
            /\ result.creative_b.samples = den_b
            /\ result.creative_b.rate = Rat(Round(Rat(num_b, den_b), 4), 10000)

\* C13: analyze_test, metric selection.  For two found variants: ctr uses
\* (clicks, impressions), cvr uses (conversions, clicks) and install_rate uses
\* (installs, clicks) as (numerator, denominator) of both variants; any other
\* metric name gives an error result and nothing else (no verdict, no
\* insufficient_data signal), whatever the counts are, counts below the
\* volume gate included.
C13_MetricSelection ==
    BothFound =>
        CASE call.args.metric = "ctr" ->
                ComputedFrom(RowA.clicks, RowA.impressions, RowB.clicks, RowB.impressions)
          [] call.args.metric = "cvr" ->
                ComputedFrom(RowA.conversions, RowA.clicks, RowB.conversions, RowB.clicks)
          [] call.args.metric = "install_rate" ->
                ComputedFrom(RowA.installs, RowA.clicks, RowB.installs, RowB.clicks)
          [] OTHER ->
                /\ DOMAIN result = {"error"}
                /\ result.error = "Unknown metric: " \o call.args.metric

\* an unknown metric on two variants with every count below 100
C13_Witness ==
    /\ BothFound
    /\ call.args.metric = "roas"
    /\ RowA.impressions < 100 /\ RowB.impressions < 100
    /\ result = [error |-> "Unknown metric: roas"]

\* the rates of the two variants of a verdict, from the rows
RateA == Rat(NumA, DenA)

RateB == Rat(NumB, DenB)

\* C17: analyze_test, lift.  In every verdict, lift is
\* (rate_b - rate_a)/rate_a when rate_a > 0 and 0 when rate_a = 0, whatever
\* rate_b is; the bounds of the lift confidence interval are both 0 when
\* rate_a = 0, and (diff - margin)/rate_a and (diff + margin)/rate_a for one
\* margin >= 0 when rate_a > 0 (diff = rate_b - rate_a); the returned lift and
\* bounds are these values rounded to three decimals.
C17_Lift ==
    IsVerdict =>
        LET diff == RatSub(RateB, RateA)
            low == RatMul(frame.ci_lower, RateA)
            high == RatMul(frame.ci_upper, RateA)
        IN  /\ NumA > 0 =>
                  /\ frame.lift = RatDiv(diff, RateA)
                  /\ RatSub(diff, low) = RatSub(high, diff)
                  /\ RatSub(high, low)[1] >= 0
            /\ NumA = 0 =>
                  /\ frame.lift = Zero
                  /\ frame.ci_lower = Zero
                  /\ frame.ci_upper = Zero
            /\ result.lift = Rat(Round(frame.lift, 3), 1000)
            /\ result.confidence_interval.lower = Rat(Round(frame.ci_lower, 3), 1000)
            /\ result.confidence_interval.upper = Rat(Round(frame.ci_upper, 3), 1000)

\* a verdict with rate_a = 0 and rate_b > 0: lift and both bounds are 0
C17_Witness ==
    /\ IsVerdict
    /\ NumA = 0 /\ NumB > 0
    /\ result.lift = Zero
    /\ result.confidence_interval = [lower |-> Zero, upper |-> Zero]

\* C20: analyze_test never declares a winner between equal rates.  In every
\* verdict: significant implies that the two rates differ; winner B implies
\* rate_b > rate_a and winner A implies rate_a > rate_b; equal rates give
\* z_score = 0, p_value = 1 and the winner tie.
C20_NoWinnerOnEqualRates ==
    IsVerdict =>
        /\ result.statistical_significance => NumA * DenB # NumB * DenA
        /\ result.winner = "B" => NumB * DenA > NumA * DenB
        /\ result.winner = "A" => NumA * DenB > NumB * DenA
        /\ NumA * DenB = NumB * DenA =>
              /\ result.z_score = Zero
              /\ result.p_value = One
              /\ result.winner = "tie"

\* two different rows of equal positive rate on different sample sizes
C20_Witness ==
    /\ IsVerdict
    /\ NumA > 0 /\ DenA # DenB
    /\ NumA * DenB = NumB * DenA
    /\ result.winner = "tie"
    /\ ~result.statistical_significance
    /\ result.p_value = One

----------------------------------------------------------------------------
(* Properties of calculate_sample_size                                     *)

IsSampleSize == call.op = "calculate_sample_size"

\* parameters outside the domain: no effect to detect, or a baseline rate
\* outside (0, 1)
InvalidParameters ==
    \/ call.args.minimum_detectable_effect = Zero
    \/ RatLe(call.args.baseline_cvr, Zero)
    \/ RatLe(One, call.args.baseline_cvr)

\* C12 as stated: a call of calculate_sample_size with
\* minimum_detectable_effect = 0, or with baseline_cvr <= 0, or with
\* baseline_cvr >= 1, fails with an error and never returns an integer.
C12_Original ==
    (IsSampleSize /\ InvalidParameters) =>
        /\ "raised" \in DOMAIN result
        /\ "value" \notin DOMAIN result


\* C15 as stated: the result of a multi_armed_bandit call (chosen variant,
\* reason, weights) is a function of its own variants and epsilon, and is not
\* changed by the draws of other calls: it is the same in whatever state
\* those draws have left the shared generator.
C15_Original ==
    IsAllocation =>
        \A s \in 0..(RngPeriod - 1) :
            LET pick == EpsilonGreedy(result.leaderboard, call.args.epsilon, s)
            IN  /\ pick.chosen.creative_id = result.next_creative
                /\ pick.reason = result.reason
                /\ Allocation(result.leaderboard, pick.chosen, call.args.epsilon)
                      = result.allocation


----------------------------------------------------------------------------
(* Properties of bulk_analyze_24h                                          *)

IsBulk == call.op = "bulk_analyze_24h"

\* the recommendations of the entries of a result list
RecommendationsIn(list) == {list[i].analysis.recommendation : i \in 1..Len(list)}

\* the number of analysed creatives with recommendation r
CountOf(r) ==
    Cardinality({i \in 1..Len(call.args.creatives_data) :
        BulkResult(call.args.creatives_data[i], call.args.utcnow).analysis.recommendation = r})

\* C16 as stated: bulk_analyze_24h partitions its input by recommendation:
\* every analysed creative is in exactly one of winners, potential, losers;
\* winners holds exactly the creatives to scale, potential the creatives to
\* continue, and losers only creatives to kill, so kill_rate and
\* estimated_savings_usd count only killed creatives.
C16_Original ==
    IsBulk =>
        /\ Len(result.winners) + Len(result.potential) + Len(result.losers)
              = Len(call.args.creatives_data)
        /\ Len(result.winners) = CountOf("scale")
        /\ RecommendationsIn(result.winners) \subseteq {"scale"}
        /\ Len(result.potential) = CountOf("continue")
        /\ RecommendationsIn(result.potential) \subseteq {"continue"}
        /\ RecommendationsIn(result.losers) \subseteq {"kill"}
        /\ result.summary.estimated_savings_usd = 40 * CountOf("kill")
        /\ Len(call.args.creatives_data) > 0 =>
              result.summary.kill_rate = Rat(CountOf("kill"), Len(call.args.creatives_data))


\* C22: multi_armed_bandit at the extremes of epsilon.  With epsilon = 0 the
\* reason is always exploit_winner, the chosen variant is the first of the
\* leaderboard and has weight 1, and every other variant has weight 0; with
\* epsilon = 1 the reason is always explore and every variant, chosen or
\* not, has weight 1/n.
C22_Extremes ==
    IsAllocation =>
        /\ call.args.epsilon = Zero =>
              /\ result.reason = "exploit_winner"
              /\ result.next_creative = result.leaderboard[1].creative_id
              /\ \A id \in VariantIds :
                    result.allocation[id] = IF id = result.next_creative THEN One ELSE Zero
        /\ call.args.epsilon = One =>
              /\ result.reason = "explore"
              /\ result.next_creative \in VariantIds
              /\ \A id \in VariantIds :
                    result.allocation[id] = Rat(1, Cardinality(VariantIds))

\* epsilon = 1 on three variants: a variant other than the leader is chosen
\* and every weight is 1/3
C22_Witness ==
    /\ IsAllocation
    /\ call.args.epsilon = One
    /\ Cardinality(VariantIds) = 3
    /\ result.reason = "explore"
    /\ result.next_creative # result.leaderboard[1].creative_id
    /\ \A id \in VariantIds : result.allocation[id] = <<1, 3>>

----------------------------------------------------------------------------
(* Tenant isolation                                                        *)

\* a row of the table that is another user's
Foreign(id) == id \in DOMAIN db /\ db[id].user_id # user_id

\* C19: tenant isolation.  analyze_test returns the 'Creative not found'
\* error, and nothing else, when either requested id is another user's row
\* or no row at all, and a result with counts or statistics only for two rows
\* of the instance's user; the leaderboard and the weight map of
\* multi_armed_bandit hold only rows of the instance's user, and hold no
\* requested row of another user.
C19_TenantIsolation ==
    /\ call.op = "analyze_test" =>
          IF Found(call.args.creative_a_id) /\ Found(call.args.creative_b_id)
          THEN result # [error |-> "Creative not found"]
          ELSE result = [error |-> "Creative not found"]
    /\ IsAllocation =>
          /\ \A i \in 1..Len(result.leaderboard) :
                Found(result.leaderboard[i].creative_id)
          /\ \A id \in DOMAIN result.allocation : Found(id)
          /\ Found(result.next_creative)
    /\ (call.op = "multi_armed_bandit" /\ ~IsAllocation) =>
          \A id \in call.args.creative_ids : ~Found(id)

\* analyze_test is asked to compare a row of the user with a row of another
\* user
C19_Witness ==
    /\ call.op = "analyze_test"
    /\ Found(call.args.creative_a_id)
    /\ Foreign(call.args.creative_b_id)
    /\ call.args.metric = "ctr"
    /\ result = [error |-> "Creative not found"]

----------------------------------------------------------------------------
(* Properties of sequences of calls                                        *)

\* no step changes a row of the table or an entry of the threshold table
Unmutated == db' = db /\ THRESHOLDS' = THRESHOLDS

\* the result of the call in progress does not depend on the calls before
\* it: it is what the call returns whatever draws the earlier calls made
IndependentOfEarlierCalls ==
    IsAllocation =>
        \A s \in 0..(RngPeriod - 1) :
            EpsilonGreedy(result.leaderboard, call.args.epsilon, s).chosen.creative_id
                = result.next_creative

\* C18 as stated: after any sequence of analyze_test,
\* analyze_24h_performance, multi_armed_bandit and calculate_sample_size
\* calls every row's counts and every entry of the threshold table equal
\* their values before the calls, and no call's result depends on an earlier
\* call.
C18_Original == [][Unmutated /\ IndependentOfEarlierCalls']_vars

\* the frame part alone: rows and thresholds are never changed
C18_Frame == [][Unmutated]_vars

====
